---- MODULE Spec2Model ----
(***************************************************************************)
(* A model of src/src/nasl_plugins.c: the NASL plugin class of the         *)
(* scanner.  nasl_plugin_add resolves a plugin's NVTI from the cache or by  *)
(* parsing the script, fixes a timestamp from the future, commits the NVTI  *)
(* to the cache and merges its preferences into the global preferences.    *)
(* nasl_plugin_launch forks one worker process per plugin; the worker runs  *)
(* nasl_thread, which prepares the process, executes the script and sends   *)
(* the FINISHED control message on the socket it was launched with.         *)
(*                                                                         *)
(* Strings the code builds or trims are sequences of characters, so that    *)
(* formatting and g_strchomp are computed, not assumed.                     *)
(***************************************************************************)
EXTENDS Integers, Sequences, FiniteSets, TLC

VARIABLES
  prefs,      \* the global preferences: a function from keys to values
  cache,      \* the NVTI cache: filename -> NVTI or NULL_NVTI
  ftime,      \* the plugin files' timestamps: filename -> [actime, modtime]
  clock,      \* the value time (NULL) returns
  nloads,     \* number of nasl_plugin_add calls made
  last,       \* what the last nasl_plugin_add call did and returned
  committed,  \* every <<filename, NVTI>> nasl_plugin_add passed to nvticache_add
  loaded,     \* filename -> the NVTI its last successful nasl_plugin_add merged
  nmerges,    \* number of direct prefs_add_nvti applications (SpecMerge)
  lastMerge,  \* the NVTI and the preferences of the last direct application
  procs,      \* the worker processes: pid -> process state
  launches,   \* the nasl_plugin_launch calls made: arguments and return value
  ctrl,       \* the control sockets: soc -> sequence of messages sent on it
  parent      \* the launching process's own state

vars == <<prefs, cache, ftime, clock, nloads, last, committed, loaded, nmerges,
          lastMerge, procs, launches, ctrl, parent>>

loadVars == <<cache, ftime, clock, nloads, last, committed, loaded>>
mergeVars == <<nmerges, lastMerge>>
launchVars == <<procs, launches, ctrl, parent>>

(***************************************************************************)
(* Bounds of the model.                                                    *)
(***************************************************************************)
MaxPrefs == 2       \* preferences an NVTI declares, at most (SpecMerge)
MaxMerges == 2      \* direct prefs_add_nvti applications (SpecMerge)
MaxLoads == 2       \* nasl_plugin_add calls
MaxTime == 2        \* the clock runs from 1 to MaxTime
MaxLaunches == 2    \* nasl_plugin_launch calls

(***************************************************************************)
(* Values.                                                                 *)
(***************************************************************************)
NULL == "NULL"                    \* a null char pointer (an OID)
NULL_NVTI == [null |-> TRUE]      \* a null nvti_t pointer

Whitespace == {" ", "\t"}         \* characters g_ascii_isspace accepts

Names == {"f1", "f2"}             \* plugin file names

\* The preferences a script may declare: [name, type, dflt].
PrefDecls ==
  { [name |-> <<"a">>,      type |-> <<"e">>, dflt |-> "1"],
    [name |-> <<"a", " ">>, type |-> <<"e">>, dflt |-> "2"],
    [name |-> <<"a">>,      type |-> <<"c">>, dflt |-> "2"],
    [name |-> <<" ", "a">>, type |-> <<"e">>, dflt |-> "1"] }

RECURSIVE SeqsUpTo(_, _)
SeqsUpTo(S, n) ==
  IF n = 0 THEN {<<>>}
  ELSE LET shorter == SeqsUpTo(S, n - 1)
       IN shorter \cup {Append(s, x) : s \in {t \in shorter : Len(t) = n - 1}, x \in S}

\* An nvti_t as this file reads it: nvti_oid, nvti_name, nvti_pref (i).
Nvti(oid, name, ps) == [oid |-> oid, name |-> name, prefs |-> ps]

\* The NVTIs prefs_add_nvti is applied to directly: one plugin name, every
\* sequence of declared preferences, and the null pointer.
MergeNvtis ==
  {Nvti("o1", <<"p">>, ps) : ps \in SeqsUpTo(PrefDecls, MaxPrefs)} \cup {NULL_NVTI}

(***************************************************************************)
(* The global preferences (gvm/base/prefs.h), as this file uses them.      *)
(***************************************************************************)
\* prefs_set (key, value): the key is added or its value replaced.
prefs_set_toggle(p, key, value) ==
  IF key \in DOMAIN p /\ p[key] = value
    THEN [k \in DOMAIN p \ {key} |-> p[k]]
    ELSE [k \in DOMAIN p \cup {key} |-> IF k = key THEN value ELSE p[k]]

prefs_set(p, key, value) ==
  [k \in DOMAIN p \cup {key} |-> IF k = key THEN value ELSE p[k]]

\* prefs_get_bool (key): the key is set, and set to "yes".
prefs_get_bool(p, key) == key \in DOMAIN p /\ p[key] = "yes"

\* g_strchomp left out: the name is used as declared.
g_strchomp_none(s) == s

\* g_strchomp (string): trailing whitespace removed.
RECURSIVE g_strchomp(_)
g_strchomp(s) ==
  IF s = <<>> THEN s
  ELSE IF s[Len(s)] \in Whitespace THEN g_strchomp(SubSeq(s, 1, Len(s) - 1))
  ELSE s

\* g_strdup_printf ("%s[%s]:%s", nvti_name (nvti), nvtpref_type (np), cname)
PrefKey(nvti, np) ==
  nvti.name \o <<"[">> \o np.type \o <<"]", ":">> \o g_strchomp(np.name)

\* The loop of prefs_add_nvti from index i on (i counts from 1 here).
RECURSIVE PrefsAddFrom(_, _, _)
PrefsAddFrom(p, nvti, i) ==
  IF i > Len(nvti.prefs) THEN p
  ELSE PrefsAddFrom(prefs_set(p, PrefKey(nvti, nvti.prefs[i]), nvti.prefs[i].dflt),
                    nvti, i + 1)

prefs_add_nvti(p, nvti) ==
  IF nvti = NULL_NVTI THEN p ELSE PrefsAddFrom(p, nvti, 1)

(***************************************************************************)
(* prefs_add_nvti applied directly, from every starting configuration.     *)
(***************************************************************************)
\* Keys a starting configuration may hold: one a merge of plugin "p" will
\* write, one with the untrimmed name, one of another plugin, one option.
StartKeys ==
  { <<"p", "[", "e", "]", ":", "a">>,
    <<"p", "[", "e", "]", ":", "a", " ">>,
    <<"q", "[", "e", "]", ":", "a">>,
    <<"be_nice">> }

StartPrefs == UNION {[K -> {"9"}] : K \in SUBSET StartKeys}

NoLoad ==
  [name |-> "none", ret |-> 0, execs |-> 0, mode |-> {}, execOid |-> NULL,
   parsed |-> NULL_NVTI, added |-> NULL_NVTI, nvti |-> NULL_NVTI,
   merged |-> NULL_NVTI, utime |-> "none", st_mtime |-> -1]

\* The launching process: its globals' "global_socket", its knowledge-base
\* link, its cache connection, whether it runs as root, its nice value.
NoParent ==
  [global_socket |-> 0, kb |-> "parent", cache |-> "parent", root |-> FALSE,
   nice |-> 0]

InitMerge ==
  /\ prefs \in StartPrefs
  /\ cache = [n \in Names |-> NULL_NVTI]
  /\ ftime = [n \in Names |-> [actime |-> 0, modtime |-> 0]]
  /\ clock = 1
  /\ nloads = 0
  /\ last = NoLoad
  /\ committed = {}
  /\ loaded = [n \in Names |-> NULL_NVTI]
  /\ nmerges = 0
  /\ lastMerge = [nvti |-> NULL_NVTI, again |-> FALSE]
  /\ procs = <<>>
  /\ launches = <<>>
  /\ ctrl = <<>>
  /\ parent = NoParent

\* One application of prefs_add_nvti; again records that the application
\* before it was of the same NVTI.
Merge(nvti) ==
  /\ nmerges < MaxMerges
  /\ prefs' = prefs_add_nvti(prefs, nvti)
  /\ nmerges' = nmerges + 1
  /\ lastMerge' = [nvti |-> nvti, again |-> nmerges > 0 /\ lastMerge.nvti = nvti]
  /\ UNCHANGED <<loadVars, launchVars>>

NextMerge == \E nvti \in MergeNvtis : Merge(nvti)

SpecMerge == InitMerge /\ [][NextMerge]_vars

(***************************************************************************)
(* nasl_plugin_add: the NVTI cache, the interpreter in description mode,    *)
(* the plugin file's timestamps.                                           *)
(***************************************************************************)
\* nvticache_get (name): the cached NVTI of the file, or NULL.
nvticache_get(c, name) == c[name]

\* nvticache_add (nvti, name): the NVTI is stored under the file name.
nvticache_add(c, nvti, name) == [c EXCEPT ![name] = nvti]

\* The mode of lines 113-122 without the test of the preference.
DescrMode_unsigned(p) == {"NASL_EXEC_DESCR"}

\* The mode nasl_plugin_add passes to exec_nasl_script.
DescrMode(p) ==
  {"NASL_EXEC_DESCR"} \cup
    (IF prefs_get_bool(p, <<"nasl_no_signature_check">>)
       THEN {"NASL_ALWAYS_SIGNED"} ELSE {})

\* What exec_nasl_script may do with a script in description mode: fail
\* (a negative return), or return 0 having filled the new NVTI, with an OID
\* or, when the script exits before its description is complete, without.
pa == [name |-> <<"a">>, type |-> <<"e">>, dflt |-> "1"]
pasp == [name |-> <<"a", " ">>, type |-> <<"e">>, dflt |-> "2"]
pac == [name |-> <<"a">>, type |-> <<"c">>, dflt |-> "2"]

ScriptNvtis ==
  { Nvti(NULL, <<"p">>, <<pa>>),
    Nvti("o1", <<"p">>, <<>>),
    Nvti("o1", <<"p">>, <<pa, pasp>>),
    Nvti("o2", <<"q">>, <<pasp, pac>>) }

ExecOutcomes ==
  {[ret |-> -1, nvti |-> Nvti(NULL, <<>>, <<>>)]} \cup
  {[ret |-> 0, nvti |-> d] : d \in ScriptNvtis}

\* What the cache may hold for a file before the first nasl_plugin_add:
\* nothing, an entry without OID, a valid entry.
CachedAtStart ==
  {NULL_NVTI, Nvti(NULL, <<"q">>, <<pac>>), Nvti("o2", <<"q">>, <<pa>>)}

\* time_t now = time (NULL) - 1
Now(clk) == clk - 1

\* The comparison of line 148 made with time (NULL) in place of now.
FromTheFuture_clock(ft, name, clk) == ft[name].modtime > clk

\* The comparison of line 148 reversed.
FromTheFuture_reversed(ft, name, clk) == ft[name].modtime < Now(clk)

\* Lines 145-157: the file's modification time is compared with now and, when
\* later, utime sets both timestamps to now; utime may fail.
FromTheFuture(ft, name, clk) == ft[name].modtime > Now(clk)

FixTimestamp(ft, name, clk, utimeOk) ==
  IF FromTheFuture(ft, name, clk) /\ utimeOk
    THEN [ft EXCEPT ![name] = [actime |-> Now(clk), modtime |-> Now(clk)]]
    ELSE ft

UtimeResult(ft, name, clk, utimeOk) ==
  IF ~FromTheFuture(ft, name, clk) THEN "none"
  ELSE IF utimeOk THEN "ok" ELSE "failed"

\* The test of line 159 left out, and the test inverted.
ShouldCache_always(new_nvti) == TRUE

ShouldCache_inverted(new_nvti) == new_nvti.oid = NULL

\* Lines 159-168: the parsed NVTI is added to the cache when it has an OID.
ShouldCache(new_nvti) == new_nvti.oid # NULL

\* Lines 171-188 with the preferences merged before the OID is tested.
Finish_merge_first(p, nvti) ==
  IF nvti = NULL_NVTI THEN [ret |-> -1, prefs |-> p, merged |-> NULL_NVTI]
  ELSE IF nvti.oid = NULL
    THEN [ret |-> -1, prefs |-> prefs_add_nvti(p, nvti), merged |-> NULL_NVTI]
  ELSE [ret |-> 0, prefs |-> prefs_add_nvti(p, nvti), merged |-> nvti]

\* Lines 171-188 without the OID test of line 178.
Finish_nooid(p, nvti) ==
  IF nvti = NULL_NVTI THEN [ret |-> -1, prefs |-> p, merged |-> NULL_NVTI]
  ELSE [ret |-> 0, prefs |-> prefs_add_nvti(p, nvti), merged |-> nvti]

\* Lines 171-188, with nvti the pointer the cache returned (or NULL): the
\* return value, the preferences afterwards and the NVTI merged.
Finish(p, nvti) ==
  IF nvti = NULL_NVTI THEN [ret |-> -1, prefs |-> p, merged |-> NULL_NVTI]
  ELSE IF nvti.oid = NULL THEN [ret |-> -1, prefs |-> p, merged |-> NULL_NVTI]
  ELSE [ret |-> 0, prefs |-> prefs_add_nvti(p, nvti), merged |-> nvti]

\* What the NVTI cache, a store outside this program, may hold for a file
\* right after nvticache_add (nvti, name): the NVTI added, or what another
\* writer left there, or nothing.
StoredAs(nvti) == {nvti} \cup CachedAtStart

\* The parsed NVTI used in place of the one fetched from the cache.
Refetch_parsed(c, name, new_nvti) == new_nvti

\* Line 162: nvti = nvticache_get (name), after the add; new_nvti, the
\* parsed NVTI, is not read.
Refetch(c, name, new_nvti) == nvticache_get(c, name)

\* Lines 126-169: the cache missed.  out is what exec_nasl_script does;
\* stored is what the cache holds for the file after nvticache_add;
\* st_mtime is what stat (line 147) read, -1 where stat is not called.
MissStored(p, c, ft, clk, name, out, utimeOk, stored) ==
  IF out.ret < 0
    THEN [ret |-> -1, prefs |-> p, cache |-> c, ftime |-> ft, execs |-> 1,
          parsed |-> NULL_NVTI, added |-> NULL_NVTI, nvti |-> NULL_NVTI,
          merged |-> NULL_NVTI, utime |-> "none", st_mtime |-> -1]
    ELSE
      LET ft1 == FixTimestamp(ft, name, clk, utimeOk)
          add == ShouldCache(out.nvti)
          c1 == IF add THEN nvticache_add(c, stored, name) ELSE c
          nvti == IF add THEN Refetch(c1, name, out.nvti) ELSE NULL_NVTI
          fin == Finish(p, nvti)
      IN [ret |-> fin.ret, prefs |-> fin.prefs, cache |-> c1, ftime |-> ft1,
          execs |-> 1, parsed |-> out.nvti,
          added |-> IF add THEN out.nvti ELSE NULL_NVTI,
          nvti |-> nvti, merged |-> fin.merged,
          utime |-> UtimeResult(ft, name, clk, utimeOk),
          st_mtime |-> ft[name].modtime]

\* The same with a cache that holds what was added.
Miss(p, c, ft, clk, name, out, utimeOk) ==
  MissStored(p, c, ft, clk, name, out, utimeOk, out.nvti)

\* nasl_plugin_add without the cache lookup of line 124.
nasl_plugin_add_reparse(p, c, ft, clk, name, out, utimeOk) ==
  Miss(p, c, ft, clk, name, out, utimeOk)

\* nasl_plugin_add with the timestamps of lines 143-157 looked at on a hit
\* of the cache as well.
nasl_plugin_add_fix_on_hit(p, c, ft, clk, name, out, utimeOk) ==
  LET nvti == nvticache_get(c, name)
  IN IF nvti = NULL_NVTI
       THEN Miss(p, c, ft, clk, name, out, utimeOk)
       ELSE LET fin == Finish(p, nvti)
            IN [ret |-> fin.ret, prefs |-> fin.prefs, cache |-> c,
                ftime |-> FixTimestamp(ft, name, clk, TRUE),
                execs |-> 0, parsed |-> NULL_NVTI, added |-> NULL_NVTI,
                nvti |-> nvti, merged |-> fin.merged, utime |-> "none",
                st_mtime |-> -1]

\* nasl_plugin_add (folder, name), lines 109-189.
nasl_plugin_add(p, c, ft, clk, name, out, utimeOk) ==
  LET nvti == nvticache_get(c, name)
  IN IF nvti = NULL_NVTI
       THEN Miss(p, c, ft, clk, name, out, utimeOk)
       ELSE LET fin == Finish(p, nvti)
            IN [ret |-> fin.ret, prefs |-> fin.prefs, cache |-> c, ftime |-> ft,
                execs |-> 0, parsed |-> NULL_NVTI, added |-> NULL_NVTI,
                nvti |-> nvti, merged |-> fin.merged, utime |-> "none",
                st_mtime |-> -1]

\* nasl_plugin_add with the cache holding stored after nvticache_add.
nasl_plugin_add_stored(p, c, ft, clk, name, out, utimeOk, stored) ==
  LET nvti == nvticache_get(c, name)
  IN IF nvti = NULL_NVTI
       THEN MissStored(p, c, ft, clk, name, out, utimeOk, stored)
       ELSE nasl_plugin_add(p, c, ft, clk, name, out, utimeOk)

InitLoad ==
  /\ prefs \in UNION {[K -> {"yes", "no"}] : K \in SUBSET {<<"nasl_no_signature_check">>}}
  /\ cache \in [Names -> CachedAtStart]
  /\ ftime \in [Names -> {[actime |-> t, modtime |-> t] : t \in 0..(MaxTime + 1)}]
  /\ clock = 1
  /\ nloads = 0
  /\ last = NoLoad
  /\ committed = {}
  /\ loaded = [n \in Names |-> NULL_NVTI]
  /\ nmerges = 0
  /\ lastMerge = [nvti |-> NULL_NVTI, again |-> FALSE]
  /\ procs = <<>>
  /\ launches = <<>>
  /\ ctrl = <<>>
  /\ parent = NoParent

\* One call of nasl_plugin_add.  The interpreter's outcome and utime's are
\* inputs; they are drawn only where the call reads them.
Load(name, out, utimeOk) ==
  /\ nloads < MaxLoads
  /\ LET r == nasl_plugin_add(prefs, cache, ftime, clock, name, out, utimeOk)
     IN /\ (r.execs = 0 => out = CHOOSE o \in ExecOutcomes : TRUE)
        /\ (r.utime = "none" => utimeOk)
        /\ prefs' = r.prefs
        /\ cache' = r.cache
        /\ ftime' = r.ftime
        /\ last' = [name |-> name, ret |-> r.ret, execs |-> r.execs,
                    mode |-> IF r.execs > 0 THEN DescrMode(prefs) ELSE {},
                    execOid |-> NULL, parsed |-> r.parsed, added |-> r.added,
                    nvti |-> r.nvti, merged |-> r.merged, utime |-> r.utime,
                    st_mtime |-> r.st_mtime]
        /\ committed' = IF r.added = NULL_NVTI THEN committed
                        ELSE committed \cup {<<name, r.added>>}
        /\ loaded' = IF r.ret = 0 THEN [loaded EXCEPT ![name] = r.merged] ELSE loaded
  /\ nloads' = nloads + 1
  /\ UNCHANGED <<clock, mergeVars, launchVars>>

\* Time passes.
Tick ==
  /\ clock < MaxTime
  /\ clock' = clock + 1
  /\ UNCHANGED <<prefs, cache, ftime, nloads, last, committed, loaded,
                 mergeVars, launchVars>>

NextLoad ==
  \/ \E name \in Names, out \in ExecOutcomes, utimeOk \in BOOLEAN :
       Load(name, out, utimeOk)
  \/ Tick

SpecLoad == InitLoad /\ [][NextLoad]_vars

\* One call of nasl_plugin_add with the cache as a store of its own: what
\* it holds after nvticache_add is an input too, drawn where the call adds.
LoadStored(name, out, utimeOk, stored) ==
  /\ nloads < MaxLoads
  /\ LET r == nasl_plugin_add_stored(prefs, cache, ftime, clock, name, out,
                                     utimeOk, stored)
     IN /\ (r.execs = 0 => out = CHOOSE o \in ExecOutcomes : TRUE)
        /\ (r.utime = "none" => utimeOk)
        /\ (r.added = NULL_NVTI => stored = out.nvti)
        /\ prefs' = r.prefs
        /\ cache' = r.cache
        /\ ftime' = r.ftime
        /\ last' = [name |-> name, ret |-> r.ret, execs |-> r.execs,
                    mode |-> IF r.execs > 0 THEN DescrMode(prefs) ELSE {},
                    execOid |-> NULL, parsed |-> r.parsed, added |-> r.added,
                    nvti |-> r.nvti, merged |-> r.merged, utime |-> r.utime,
                    st_mtime |-> r.st_mtime]
        /\ committed' = IF r.added = NULL_NVTI THEN committed
                        ELSE committed \cup {<<name, r.added>>}
        /\ loaded' = IF r.ret = 0 THEN [loaded EXCEPT ![name] = r.merged] ELSE loaded
  /\ nloads' = nloads + 1
  /\ UNCHANGED <<clock, mergeVars, launchVars>>

NextLoadStored ==
  \/ \E name \in Names, out \in ExecOutcomes, utimeOk \in BOOLEAN :
       \E stored \in StoredAs(out.nvti) : LoadStored(name, out, utimeOk, stored)
  \/ Tick

SpecLoadStored == InitLoad /\ [][NextLoadStored]_vars

(***************************************************************************)
(* nasl_plugin_launch and the worker it forks, nasl_thread.                *)
(***************************************************************************)
Socs == {3, 4}                    \* control sockets given to launches

\* The arguments of a launch: plugin file name, OID, control socket.
LaunchArgs ==
  { [name |-> "f1", oid |-> "o1", soc |-> 3],
    [name |-> "f2", oid |-> "o2", soc |-> 4] }

BoolKeys == {<<"be_nice">>, <<"drop_privileges">>, <<"nasl_no_signature_check">>}

FINISHED == "INTERNAL_COMM_MSG_TYPE_CTRL|INTERNAL_COMM_CTRL_FINISHED"

\* What exec_nasl_script returns to the worker: success, failure, an
\* internal error.  nasl_thread does not read it.
ExecStatus == {"ok", "failed", "internal_error"}

\* What drop_privileges (NULL, &error) may return in a process.
DropResults(root) ==
  IF root THEN {"GVM_DROP_PRIVILEGES_OK", "GVM_DROP_PRIVILEGES_FAIL_DROP_UID"}
  ELSE {"GVM_DROP_PRIVILEGES_FAIL_NOT_ROOT"}

NoExec == [file |-> "none", oid |-> NULL, mode |-> {}]

\* The child right after the fork: a copy of the parent's memory, with the
\* nasl_thread_args of the launch, about to enter nasl_thread.
Child(par, a) ==
  [pc |-> "nvticache_reset", name |-> a.name, oid |-> a.oid, soc |-> a.soc,
   global_socket |-> par.global_socket, kb |-> "inherited",
   cache |-> "inherited", cleaned |-> FALSE, root |-> par.root,
   nice |-> par.nice, title |-> "openvassd", mode |-> {}, drop |-> "none",
   log |-> {}, exec |-> NoExec, status |-> "none"]

\* create_process (nasl_thread, &nargs): forks; the child runs the function
\* and exits; the parent gets the child's pid, or a negative value when the
\* fork failed.
create_process(ps, child, forkOk) ==
  IF forkOk THEN [procs |-> Append(ps, child), pid |-> Len(ps) + 1]
  ELSE [procs |-> ps, pid |-> -1]

InitLaunch ==
  /\ prefs \in [BoolKeys -> {"yes", "no"}]
  /\ cache = [n \in Names |-> NULL_NVTI]
  /\ ftime = [n \in Names |-> [actime |-> 0, modtime |-> 0]]
  /\ clock = 1
  /\ nloads = 0
  /\ last = NoLoad
  /\ committed = {}
  /\ loaded = [n \in Names |-> NULL_NVTI]
  /\ nmerges = 0
  /\ lastMerge = [nvti |-> NULL_NVTI, again |-> FALSE]
  /\ procs = <<>>
  /\ launches = <<>>
  /\ ctrl = [s \in Socs |-> <<>>]
  /\ parent \in {[NoParent EXCEPT !.root = r] : r \in BOOLEAN}

\* nasl_plugin_launch returning 0 instead of create_process's value.
Launch_ret0(a, forkOk) ==
  /\ Len(launches) < MaxLaunches
  /\ LET r == create_process(procs, Child(parent, a), forkOk)
     IN /\ procs' = r.procs
        /\ launches' = Append(launches, [name |-> a.name, oid |-> a.oid,
                                         soc |-> a.soc, module |-> 0])
  /\ UNCHANGED <<prefs, loadVars, mergeVars, ctrl, parent>>

\* nasl_plugin_launch returning only when the worker it forked is through
\* nasl_thread.
Launch_wait(a, forkOk) ==
  /\ Len(launches) < MaxLaunches
  /\ LET child == [Child(parent, a) EXCEPT
                     !.pc = "done", !.status = "ok",
                     !.exec = [file |-> a.name, oid |-> a.oid, mode |-> {}]]
         r == create_process(procs, child, forkOk)
     IN /\ procs' = r.procs
        /\ launches' = Append(launches, [name |-> a.name, oid |-> a.oid,
                                         soc |-> a.soc, module |-> r.pid])
        /\ ctrl' = IF forkOk
                     THEN [ctrl EXCEPT ![a.soc] =
                             Append(@, [from |-> r.pid, type |-> FINISHED])]
                     ELSE ctrl
  /\ UNCHANGED <<prefs, loadVars, mergeVars, parent>>

\* nasl_plugin_launch (globals, hostinfo, kb, name, oid, soc), lines 204-225.
Launch(a, forkOk) ==
  /\ Len(launches) < MaxLaunches
  /\ LET r == create_process(procs, Child(parent, a), forkOk)
     IN /\ procs' = r.procs
        /\ launches' = Append(launches, [name |-> a.name, oid |-> a.oid,
                                         soc |-> a.soc, module |-> r.pid])
  /\ UNCHANGED <<prefs, loadVars, mergeVars, ctrl, parent>>

Pids == DOMAIN procs

At(i, pc) == i \in Pids /\ procs[i].pc = pc

Frame == UNCHANGED <<prefs, loadVars, mergeVars, launches, ctrl, parent>>

\* Line 238: nvticache_reset ().
CacheReset(i) ==
  /\ At(i, "nvticache_reset")
  /\ procs' = [procs EXCEPT ![i].cache = "reset", ![i].pc = "nice"]
  /\ Frame

\* nice (inc) in a process: only root may lower the nice value; the value
\* is kept within -20..19.
NiceValue(n, inc) ==
  IF n + inc < -20 THEN -20 ELSE IF n + inc > 19 THEN 19 ELSE n + inc

\* Lines 239-248: with be_nice, nice (-5); a failure is logged.
Renice(i) ==
  /\ At(i, "nice")
  /\ procs' =
       IF ~prefs_get_bool(prefs, <<"be_nice">>)
         THEN [procs EXCEPT ![i].pc = "child_cleanup"]
       ELSE IF procs[i].root
         THEN [procs EXCEPT ![i].nice = NiceValue(@, -5), ![i].pc = "child_cleanup"]
       ELSE [procs EXCEPT ![i].log = @ \cup {"Unable to renice process"},
                          ![i].pc = "child_cleanup"]
  /\ Frame

\* Line 250: pluginlaunch_child_cleanup ().
ChildCleanup(i) ==
  /\ At(i, "child_cleanup")
  /\ procs' = [procs EXCEPT ![i].cleaned = TRUE, ![i].pc = "kb_lnk_reset"]
  /\ Frame

\* Lines 251-252: kb_lnk_reset (kb).
KbReset(i) ==
  /\ At(i, "kb_lnk_reset")
  /\ procs' = [procs EXCEPT ![i].kb = "own", ![i].pc = "global_socket"]
  /\ Frame

\* The socket stored into the arglist of the parent, as it would be with
\* the arglist shared between the two.
SetSocket_shared(i) ==
  /\ At(i, "global_socket")
  /\ procs' = [procs EXCEPT ![i].global_socket = procs[i].soc, ![i].pc = "proctitle"]
  /\ parent' = [parent EXCEPT !.global_socket = procs[i].soc]
  /\ UNCHANGED <<prefs, loadVars, mergeVars, launches, ctrl>>

\* Line 253: arg_set_value (globals, "global_socket", nargs->soc).
SetSocket(i) ==
  /\ At(i, "global_socket")
  /\ procs' = [procs EXCEPT ![i].global_socket = procs[i].soc, ![i].pc = "proctitle"]
  /\ Frame

\* Line 254: proctitle_set ("openvassd: testing %s (%s)", hostinfo->name, name).
SetTitle(i) ==
  /\ At(i, "proctitle")
  /\ procs' = [procs EXCEPT ![i].title = "openvassd: testing", ![i].pc = "nasl_mode"]
  /\ Frame

\* Lines 256-257: the mode nasl_thread passes to exec_nasl_script.
LaunchMode(p) ==
  IF prefs_get_bool(p, <<"nasl_no_signature_check">>)
    THEN {"NASL_ALWAYS_SIGNED"} ELSE {}

SetMode(i) ==
  /\ At(i, "nasl_mode")
  /\ procs' = [procs EXCEPT ![i].mode = LaunchMode(prefs), ![i].pc = "drop_privileges"]
  /\ Frame

\* nasl_thread returning when the privileges could not be dropped.
DropPrivileges_abort(i, res) ==
  /\ At(i, "drop_privileges")
  /\ procs' =
       IF ~prefs_get_bool(prefs, <<"drop_privileges">>)
         THEN [procs EXCEPT ![i].pc = "exec_nasl_script"]
         ELSE [procs EXCEPT
                 ![i].drop = res,
                 ![i].root = IF res = "GVM_DROP_PRIVILEGES_OK" THEN FALSE ELSE @,
                 ![i].log = IF res \notin {"GVM_DROP_PRIVILEGES_OK",
                                           "GVM_DROP_PRIVILEGES_FAIL_NOT_ROOT"}
                              THEN @ \cup {"Failed to drop privileges"} ELSE @,
                 ![i].pc = IF res = "GVM_DROP_PRIVILEGES_OK"
                             THEN "exec_nasl_script" ELSE "done"]
  /\ Frame

\* Lines 259-268: with drop_privileges, the attempt; a result other than
\* OK and FAIL_NOT_ROOT is logged; the worker goes on in every case.
DropPrivileges(i, res) ==
  /\ At(i, "drop_privileges")
  /\ procs' =
       IF ~prefs_get_bool(prefs, <<"drop_privileges">>)
         THEN [procs EXCEPT ![i].pc = "exec_nasl_script"]
         ELSE [procs EXCEPT
                 ![i].drop = res,
                 ![i].root = IF res = "GVM_DROP_PRIVILEGES_OK" THEN FALSE ELSE @,
                 ![i].log = IF res \notin {"GVM_DROP_PRIVILEGES_OK",
                                           "GVM_DROP_PRIVILEGES_FAIL_NOT_ROOT"}
                              THEN @ \cup {"Failed to drop privileges"} ELSE @,
                 ![i].pc = "exec_nasl_script"]
  /\ Frame

\* Line 270: exec_nasl_script (args, name, nargs->oid, nasl_mode) is called.
ExecCall(i) ==
  /\ At(i, "exec_nasl_script")
  /\ procs' = [procs EXCEPT
                 ![i].exec = [file |-> procs[i].name, oid |-> procs[i].oid,
                              mode |-> procs[i].mode],
                 ![i].pc = "running"]
  /\ Frame

\* A failed run started again.
ExecReturn_retry(i, status) ==
  /\ At(i, "running")
  /\ procs' = [procs EXCEPT ![i].status = status,
                            ![i].pc = IF status = "failed" THEN "exec_nasl_script"
                                      ELSE "internal_send"]
  /\ Frame

\* Line 270: exec_nasl_script returns; its value is dropped by the code and
\* kept here as the status the run ended with.
ExecReturn(i, status) ==
  /\ At(i, "running")
  /\ procs' = [procs EXCEPT ![i].status = status, ![i].pc = "internal_send"]
  /\ Frame

\* The FINISHED message left out when the socket already carries one.
Send_once(i) ==
  /\ At(i, "internal_send")
  /\ ctrl' = IF ctrl[procs[i].soc] = <<>>
               THEN [ctrl EXCEPT ![procs[i].soc] =
                       Append(@, [from |-> i, type |-> FINISHED])]
               ELSE ctrl
  /\ procs' = [procs EXCEPT ![i].pc = "done"]
  /\ UNCHANGED <<prefs, loadVars, mergeVars, launches, parent>>

\* The FINISHED message sent only after a successful run.
Send_ifok(i) ==
  /\ At(i, "internal_send")
  /\ ctrl' = IF procs[i].status = "ok"
               THEN [ctrl EXCEPT ![procs[i].soc] =
                       Append(@, [from |-> i, type |-> FINISHED])]
               ELSE ctrl
  /\ procs' = [procs EXCEPT ![i].pc = "done"]
  /\ UNCHANGED <<prefs, loadVars, mergeVars, launches, parent>>

\* Lines 271-272: internal_send (nargs->soc, NULL, CTRL | FINISHED), and
\* nasl_thread returns.
Send(i) ==
  /\ At(i, "internal_send")
  /\ ctrl' = [ctrl EXCEPT ![procs[i].soc] = Append(@, [from |-> i, type |-> FINISHED])]
  /\ procs' = [procs EXCEPT ![i].pc = "done"]
  /\ UNCHANGED <<prefs, loadVars, mergeVars, launches, parent>>

\* The drop_privileges step with each result the process may get.
Drop(i) ==
  /\ i \in Pids
  /\ \E res \in DropResults(procs[i].root) :
       /\ (~prefs_get_bool(prefs, <<"drop_privileges">>) =>
             res = CHOOSE r \in DropResults(procs[i].root) : TRUE)
       /\ DropPrivileges(i, res)

\* One step of worker i.
Worker(i) ==
  \/ CacheReset(i)
  \/ Renice(i)
  \/ ChildCleanup(i)
  \/ KbReset(i)
  \/ SetSocket(i)
  \/ SetTitle(i)
  \/ SetMode(i)
  \/ Drop(i)
  \/ ExecCall(i)
  \/ \E status \in ExecStatus : ExecReturn(i, status)
  \/ Send(i)

NextLaunch ==
  \/ \E a \in LaunchArgs, forkOk \in BOOLEAN : Launch(a, forkOk)
  \/ \E i \in 1..MaxLaunches : CacheReset(i)
  \/ \E i \in 1..MaxLaunches : Renice(i)
  \/ \E i \in 1..MaxLaunches : ChildCleanup(i)
  \/ \E i \in 1..MaxLaunches : KbReset(i)
  \/ \E i \in 1..MaxLaunches : SetSocket(i)
  \/ \E i \in 1..MaxLaunches : SetTitle(i)
  \/ \E i \in 1..MaxLaunches : SetMode(i)
  \/ \E i \in 1..MaxLaunches : Drop(i)
  \/ \E i \in 1..MaxLaunches : ExecCall(i)
  \/ \E i \in 1..MaxLaunches, status \in ExecStatus : ExecReturn(i, status)
  \/ \E i \in 1..MaxLaunches : Send(i)

SpecLaunch == InitLaunch /\ [][NextLaunch]_vars

\* Every forked process is scheduled, and every call nasl_thread makes,
\* exec_nasl_script included, returns.
FairSpecLaunch ==
  SpecLaunch /\ \A i \in 1..MaxLaunches : WF_vars(Worker(i))

\* The two uses the scanner makes of this file: while no control socket is
\* open it loads plugins; with the sockets of a scan open it launches them.
Loading == ctrl = <<>>

InitPhases == InitLoad \/ InitLaunch

NextPhases ==
  \/ \E name \in Names, out \in ExecOutcomes, utimeOk \in BOOLEAN :
       Loading /\ Load(name, out, utimeOk)
  \/ Loading /\ Tick
  \/ \E a \in LaunchArgs, forkOk \in BOOLEAN : ~Loading /\ Launch(a, forkOk)
  \/ \E i \in 1..MaxLaunches : ~Loading /\ CacheReset(i)
  \/ \E i \in 1..MaxLaunches : ~Loading /\ Renice(i)
  \/ \E i \in 1..MaxLaunches : ~Loading /\ ChildCleanup(i)
  \/ \E i \in 1..MaxLaunches : ~Loading /\ KbReset(i)
  \/ \E i \in 1..MaxLaunches : ~Loading /\ SetSocket(i)
  \/ \E i \in 1..MaxLaunches : ~Loading /\ SetTitle(i)
  \/ \E i \in 1..MaxLaunches : ~Loading /\ SetMode(i)
  \/ \E i \in 1..MaxLaunches : ~Loading /\ Drop(i)
  \/ \E i \in 1..MaxLaunches : ~Loading /\ ExecCall(i)
  \/ \E i \in 1..MaxLaunches, status \in ExecStatus :
       ~Loading /\ ExecReturn(i, status)
  \/ \E i \in 1..MaxLaunches : ~Loading /\ Send(i)

SpecPhases == InitPhases /\ [][NextPhases]_vars

(***************************************************************************)
(* The specification's statements, in its own terms.                       *)
(***************************************************************************)
\* A preference name with its trailing whitespace stripped: its longest
\* prefix that is empty or ends in a character that is no whitespace.
SpecStripped(s) ==
  LET ends == {n \in 0..Len(s) : n = 0 \/ s[n] \notin Whitespace}
  IN SubSeq(s, 1, CHOOSE n \in ends : \A m \in ends : m <= n)

\* "<pluginName>[<type>]:<name>" of the i-th declared preference.
SpecKey(d, i) ==
  d.name \o <<"[">> \o d.prefs[i].type \o <<"]", ":">> \o SpecStripped(d.prefs[i].name)

SpecKeys(d) == {SpecKey(d, i) : i \in 1..Len(d.prefs)}

\* The configuration after a merge of d into p: each key of d holds the
\* default of the last preference declared with it, every other key is kept.
SpecMerged(p, d) ==
  [k \in DOMAIN p \cup SpecKeys(d) |->
     IF k \in SpecKeys(d)
       THEN LET is == {i \in 1..Len(d.prefs) : SpecKey(d, i) = k}
            IN d.prefs[CHOOSE i \in is : \A j \in is : j <= i].dflt
       ELSE p[k]]

MergeStep == nmerges' = nmerges + 1
LoadStep == nloads' = nloads + 1

Colliding == Nvti("o1", <<"p">>, <<pa, pasp>>)

\* FINISHED messages worker i has sent on socket s.
Markers(i, s) ==
  Cardinality({k \in 1..Len(ctrl[s]) : ctrl[s][k].from = i /\ ctrl[s][k].type = FINISHED})

MarkersElsewhere(i) == \E s \in Socs \ {procs[i].soc} : Markers(i, s) > 0

AllDropResults == DropResults(TRUE) \cup DropResults(FALSE)

\* C8: merging an NVTI's preferences a second time, right after the first,
\* leaves the global preferences as the first merge left them.
C8_MergeIdempotent ==
  [][(MergeStep /\ lastMerge'.again) => prefs' = prefs]_vars

C8_Witness ==
  /\ nmerges = 2
  /\ lastMerge.again
  /\ lastMerge.nvti = Colliding
  /\ prefs[<<"p", "[", "e", "]", ":", "a">>] = "2"

\* C9: a merge sets, in declaration order, the key
\* "<pluginName>[<type>]:<name without trailing whitespace>" of each
\* preference to its default; of two preferences with one key the later
\* wins; every other key keeps its value.
C9_LastWriteWins ==
  [][(MergeStep /\ lastMerge'.nvti # NULL_NVTI)
       => prefs' = SpecMerged(prefs, lastMerge'.nvti)]_vars

C9_Witness ==
  /\ nmerges = 1
  /\ lastMerge.nvti = Colliding
  /\ DOMAIN prefs = StartKeys
  /\ prefs[<<"p", "[", "e", "]", ":", "a">>] = "2"
  /\ prefs[<<"p", "[", "e", "]", ":", "a", " ">>] = "9"

\* C3: every NVTI nasl_plugin_add has passed to nvticache_add has an OID;
\* a call whose parse succeeded without an OID added nothing and returned -1.
C3_NoOidNeverCached ==
  /\ \A e \in committed : e[2].oid # NULL
  /\ (last.parsed # NULL_NVTI /\ last.parsed.oid = NULL)
       => (last.added = NULL_NVTI /\ last.ret = -1)

C3_Witness ==
  /\ last.parsed # NULL_NVTI
  /\ last.parsed.oid = NULL
  /\ last.ret = -1
  /\ committed # {}

\* C4: when the NVTI the cache returned (on the hit, or on the fetch after
\* the add) has no OID, nasl_plugin_add returns -1 and leaves the global
\* preferences as they were.
C4_NullOidFromCacheRejected ==
  [][(LoadStep /\ last'.nvti # NULL_NVTI /\ last'.nvti.oid = NULL)
       => (last'.ret = -1 /\ last'.merged = NULL_NVTI /\ prefs' = prefs)]_vars

C4_Witness ==
  /\ last.nvti # NULL_NVTI
  /\ last.nvti.oid = NULL
  /\ Len(last.nvti.prefs) > 0
  /\ last.ret = -1

\* C5: a load of a file the cache has no entry for, whose script parses and
\* sets an OID, calls the interpreter once in description mode, stores the
\* NVTI under the file name, returns 0 and leaves the key of every declared
\* preference in the global preferences.
C5_LoadWellFormed ==
  [][(LoadStep /\ cache[last'.name] = NULL_NVTI
        /\ last'.parsed # NULL_NVTI /\ last'.parsed.oid # NULL)
       => /\ last'.execs = 1
          /\ "NASL_EXEC_DESCR" \in last'.mode
          /\ cache' = [cache EXCEPT ![last'.name] = last'.parsed]
          /\ last'.ret = 0
          /\ SpecKeys(last'.parsed) \subseteq DOMAIN prefs'
          /\ prefs' = SpecMerged(prefs, last'.parsed)]_vars

C5_Witness ==
  /\ last.execs = 1
  /\ last.ret = 0
  /\ last.parsed = Colliding
  /\ cache[last.name] = Colliding
  /\ SpecKeys(Colliding) \subseteq DOMAIN prefs

\* C6: a load of a file whose earlier load succeeded, the cache entry being
\* the one that load left, does not call the interpreter, returns 0 and
\* merges the same NVTI, so the same keys and values, as the earlier load.
C6_SecondLoadFromCache ==
  [][(LoadStep /\ loaded[last'.name] # NULL_NVTI
        /\ cache[last'.name] = loaded[last'.name])
       => /\ last'.execs = 0
          /\ last'.ret = 0
          /\ last'.merged = loaded[last'.name]
          /\ prefs' = SpecMerged(prefs, loaded[last'.name])]_vars

C6_Witness ==
  /\ nloads = 2
  /\ last.execs = 0
  /\ last.ret = 0
  /\ last.merged = Colliding
  /\ <<last.name, Colliding>> \in committed

\* C7 as stated: after any load of a file whose modification time is later
\* than the time of the load, the modification time is not later than it.
C7_AnyLoadFixesFuture ==
  [][(LoadStep /\ ftime[last'.name].modtime > clock)
       => ftime'[last'.name].modtime <= clock]_vars

\* C7: after a load of such a file that misses the cache and whose parse
\* succeeds, the modification time is one second before the time of the
\* load, unless utime failed.
C7_MissFixesFuture ==
  [][(LoadStep /\ ftime[last'.name].modtime > clock
        /\ last'.execs = 1 /\ last'.parsed # NULL_NVTI /\ last'.utime # "failed")
       => (ftime'[last'.name].modtime = clock - 1
           /\ ftime'[last'.name].modtime <= clock)]_vars

C7_Witness ==
  /\ last.name \in Names
  /\ last.execs = 1
  /\ last.parsed # NULL_NVTI
  /\ last.utime = "ok"
  /\ ftime[last.name].modtime = clock - 1

\* C1: a worker has sent no FINISHED message until its exec_nasl_script
\* call has returned and, once nasl_thread is done, has sent exactly one,
\* on the socket given to its launch; a worker whose exec_nasl_script call
\* has returned, with whatever status, gets there.
C1_ExactlyOneMarker ==
  /\ [](\A i \in Pids :
          /\ ~MarkersElsewhere(i)
          /\ Markers(i, procs[i].soc) = IF procs[i].pc = "done" THEN 1 ELSE 0
          /\ (procs[i].pc = "done" => procs[i].status \in ExecStatus))
  /\ \A i \in 1..MaxLaunches, st \in ExecStatus :
       (i \in Pids /\ procs[i].status = st)
         ~> (i \in Pids /\ procs[i].status = st /\ Markers(i, procs[i].soc) = 1)

C1_Witness ==
  \E i \in Pids :
    /\ procs[i].pc = "done"
    /\ procs[i].status = "internal_error"
    /\ Markers(i, procs[i].soc) = 1

\* C2 as stated: every launch call, one whose fork failed included, returns
\* the handle of a worker, and that worker sends exactly one FINISHED.
C2_EveryLaunchOneHandle ==
  \A k \in 1..Len(launches) :
    /\ launches[k].module \in Pids
    /\ Markers(launches[k].module, launches[k].soc) <= 1
    /\ (procs[launches[k].module].pc = "done"
          => Markers(launches[k].module, launches[k].soc) = 1)

\* C2: a launch whose fork succeeded returns the pid of one new worker, its
\* own, which has sent no FINISHED before nasl_thread is done and exactly
\* one after; a launch whose fork failed returns -1 and has no worker; the
\* FINISHED messages on a socket are those of the done workers launched
\* with it.
C2_OneHandleOneSignal ==
  /\ \A k \in 1..Len(launches) :
       LET m == launches[k].module
       IN IF m \in Pids
            THEN /\ procs[m].name = launches[k].name
                 /\ procs[m].oid = launches[k].oid
                 /\ procs[m].soc = launches[k].soc
                 /\ \A j \in 1..Len(launches) : j # k => launches[j].module # m
                 /\ Markers(m, launches[k].soc) = IF procs[m].pc = "done" THEN 1 ELSE 0
                 /\ ~MarkersElsewhere(m)
            ELSE m = -1
  /\ Cardinality(Pids) = Cardinality({k \in 1..Len(launches) : launches[k].module # -1})
  /\ \A s \in Socs :
       Len(ctrl[s]) = Cardinality({i \in Pids : procs[i].soc = s /\ procs[i].pc = "done"})

C2_Witness ==
  \E j, k \in 1..Len(launches) :
    /\ launches[j].module = -1
    /\ launches[k].module \in Pids
    /\ procs[launches[k].module].pc = "done"
    /\ Markers(launches[k].module, launches[k].soc) = 1

\* C10: a worker that attempted to drop privileges is, whatever the result,
\* at or past its exec_nasl_script call, has logged the failure exactly when
\* the result is neither OK nor FAIL_NOT_ROOT, and goes on to call
\* exec_nasl_script on its plugin and to send the FINISHED message.
C10_DropNeverStops ==
  /\ [](\A i \in Pids :
          /\ procs[i].drop # "none"
               => procs[i].pc \in {"exec_nasl_script", "running", "internal_send", "done"}
          /\ "Failed to drop privileges" \in procs[i].log
               <=> procs[i].drop \in AllDropResults \ {"GVM_DROP_PRIVILEGES_OK",
                                                       "GVM_DROP_PRIVILEGES_FAIL_NOT_ROOT"})
  /\ \A i \in 1..MaxLaunches, r \in AllDropResults :
       (i \in Pids /\ procs[i].drop = r)
         ~> (/\ i \in Pids
             /\ procs[i].drop = r
             /\ procs[i].exec.file = procs[i].name
             /\ Markers(i, procs[i].soc) = 1)

C10_Witness ==
  \E i \in Pids :
    /\ procs[i].drop = "GVM_DROP_PRIVILEGES_FAIL_DROP_UID"
    /\ "Failed to drop privileges" \in procs[i].log
    /\ procs[i].exec.file = procs[i].name
    /\ procs[i].pc = "done"
    /\ Markers(i, procs[i].soc) = 1

\* The workers the launches so far have forked.
Forked == {k \in 1..Len(launches) : launches[k].module \in Pids}

\* C11: however the steps of the workers interleave, the launches whose
\* fork succeeded hold as many distinct pids as there are workers, every
\* worker that is done has sent one FINISHED message, on its own socket and
\* on no other, whatever status its run and the runs of the others ended
\* with, and the messages on all sockets number the workers that are done.
C11_DistinctHandlesOneMarkerEach ==
  /\ Cardinality({launches[k].module : k \in Forked}) = Cardinality(Forked)
  /\ {launches[k].module : k \in Forked} = Pids
  /\ \A i \in Pids :
       procs[i].pc = "done"
         => (Markers(i, procs[i].soc) = 1 /\ ~MarkersElsewhere(i))
  /\ \A i \in Pids : procs[i].pc # "done" => \A s \in Socs : Markers(i, s) = 0
  /\ Cardinality({<<s, k>> \in Socs \X (1..MaxLaunches) : k <= Len(ctrl[s])})
       = Cardinality({i \in Pids : procs[i].pc = "done"})

\* Two workers on one socket, the one launched later done first, their runs
\* ended with different statuses.
C11_Witness ==
  \E s \in Socs :
    /\ Len(ctrl[s]) = 2
    /\ ctrl[s][1].from = 2
    /\ ctrl[s][2].from = 1
    /\ procs[1].status = "failed"
    /\ procs[2].status = "ok"
    /\ launches[1].module # launches[2].module

LaunchReturn == Len(launches') = Len(launches) + 1

\* C12: when nasl_plugin_launch returns, the worker it forked has taken no
\* step of nasl_thread: it has not called exec_nasl_script and has sent
\* nothing; the return changes no other worker and no socket; and a launch
\* can return whatever the workers forked before are doing.
C12_LaunchDoesNotWait ==
  /\ [][LaunchReturn =>
          LET m == launches'[Len(launches')].module
          IN /\ ctrl' = ctrl
             /\ \A i \in Pids : procs'[i] = procs[i]
             /\ m \in DOMAIN procs' =>
                  /\ m \notin Pids
                  /\ procs'[m].pc = "nvticache_reset"
                  /\ procs'[m].exec.file = "none"
                  /\ procs'[m].status = "none"]_vars
  /\ [](Len(launches) < MaxLaunches
          => ENABLED (\E a \in LaunchArgs : Launch(a, TRUE)))

\* The second launch has returned its pid; its worker has not begun, and the
\* first worker is inside exec_nasl_script.
C12_Witness ==
  /\ Len(launches) = 2
  /\ launches[1].module = 1
  /\ launches[2].module = 2
  /\ procs[1].pc = "running"
  /\ procs[2].pc = "nvticache_reset"
  /\ \A s \in Socs : ctrl[s] = <<>>

\* C13: a step of a worker changes that worker alone: the parent's
\* preferences, knowledge base, NVTI cache, global_socket, privileges and
\* nice value, the launches made and every other worker stay as they were,
\* and of the sockets only the worker's own may get a message.
C13_WorkerWritesOwnCopy ==
  [][\A i \in Pids :
       procs'[i] # procs[i]
         => /\ parent' = parent
            /\ prefs' = prefs
            /\ cache' = cache
            /\ launches' = launches
            /\ \A j \in Pids \ {i} : procs'[j] = procs[j]
            /\ \A s \in Socs \ {procs[i].soc} : ctrl'[s] = ctrl[s]]_vars

\* A worker through nasl_thread with its cache reset, its own knowledge base
\* link, its socket in its arglist, reniced and without privileges, next to
\* a parent that has none of these changes.
C13_Witness ==
  \E i \in Pids :
    /\ procs[i].pc = "done"
    /\ procs[i].cache = "reset" /\ parent.cache = "parent"
    /\ procs[i].kb = "own" /\ parent.kb = "parent"
    /\ procs[i].global_socket = procs[i].soc /\ parent.global_socket = 0
    /\ procs[i].nice # parent.nice
    /\ ~procs[i].root /\ parent.root

\* C14 as stated: a load that misses the cache and whose parse succeeds
\* calls utime exactly when the modification time is later than the time of
\* the load; a successful utime sets both timestamps to one second before
\* that time; a modification time equal to or earlier than the time of the
\* load is left as it is.
C14_RewriteIffAfterNow ==
  [][(LoadStep /\ last'.execs = 1 /\ last'.parsed # NULL_NVTI)
       => /\ last'.utime # "none" <=> ftime[last'.name].modtime > clock
          /\ last'.utime = "ok"
               => ftime'[last'.name] = [actime |-> clock - 1, modtime |-> clock - 1]
          /\ ftime[last'.name].modtime <= clock
               => ftime'[last'.name] = ftime[last'.name]]_vars

\* C14: such a load calls utime exactly when the modification time is equal
\* to or later than the time of the load; a successful utime sets both
\* timestamps to one second before that time; a modification time earlier
\* than the time of the load, and any when utime fails, is left as it is.
C14_RewriteIffNotBeforeNow ==
  [][(LoadStep /\ last'.execs = 1 /\ last'.parsed # NULL_NVTI)
       => /\ last'.utime # "none" <=> ftime[last'.name].modtime >= clock
          /\ last'.utime = "ok"
               => ftime'[last'.name] = [actime |-> clock - 1, modtime |-> clock - 1]
          /\ (ftime[last'.name].modtime < clock \/ last'.utime = "failed")
               => ftime'[last'.name] = ftime[last'.name]
          /\ \A n \in Names \ {last'.name} : ftime'[n] = ftime[n]]_vars

\* A file whose modification time was the time of the load, rewritten.
C14_Witness ==
  /\ last.execs = 1
  /\ last.parsed # NULL_NVTI
  /\ last.st_mtime = clock
  /\ last.utime = "ok"
  /\ ftime[last.name] = [actime |-> clock - 1, modtime |-> clock - 1]

\* C15: with be_nice set, the nice value of a worker after its renice step
\* is not smaller than before it, and a worker whose renice failed has only
\* logged the failure and goes on with nasl_thread.
C15_ReniceLowersPriority ==
  [][\A i \in Pids :
       (procs[i].pc = "nice" /\ procs'[i].pc # "nice"
          /\ <<"be_nice">> \in DOMAIN prefs /\ prefs[<<"be_nice">>] = "yes")
         => /\ procs'[i].nice >= procs[i].nice
            /\ procs'[i].pc = "child_cleanup"]_vars

\* The calls of nasl_thread, in the order of its text.
PcOrder ==
  <<"nvticache_reset", "nice", "child_cleanup", "kb_lnk_reset", "global_socket",
    "proctitle", "nasl_mode", "drop_privileges", "exec_nasl_script", "running",
    "internal_send", "done">>

Rank(pc) == CHOOSE n \in 1..Len(PcOrder) : PcOrder[n] = pc

\* The phase of a launch whose worker is at pc: 2 spawned, 3 running (inside
\* exec_nasl_script), 4 finished, 5 completion signalled.
Phase(pc) ==
  IF Rank(pc) <= 9 THEN 2 ELSE IF Rank(pc) = 10 THEN 3
  ELSE IF Rank(pc) = 11 THEN 4 ELSE 5

\* C16: a worker starts at the top of nasl_thread, every step of it is to
\* the next call, none is repeated or gone back to, so its launch passes
\* from spawned to running to finished to signalled, one phase at a time;
\* exec_nasl_script has been called only when, in this order, the cache was
\* reset, the launcher's bookkeeping cleaned up, the knowledge base link
\* reset, the socket stored and, with drop_privileges set, the drop
\* attempted; FINISHED has been sent only when the call has returned.
C16_ForwardOnly ==
  /\ [][/\ Pids \subseteq DOMAIN procs'
        /\ \A i \in DOMAIN procs' \ Pids : Rank(procs'[i].pc) = 1
        /\ \A i \in Pids :
             procs'[i] # procs[i]
               => /\ Rank(procs'[i].pc) = Rank(procs[i].pc) + 1
                  /\ Phase(procs'[i].pc) \in {Phase(procs[i].pc), Phase(procs[i].pc) + 1}]_vars
  /\ [](\A i \in Pids :
          LET r == Rank(procs[i].pc)
          IN /\ procs[i].cache = "reset" <=> r > 1
             /\ procs[i].cleaned <=> r > 3
             /\ procs[i].kb = "own" <=> r > 4
             /\ procs[i].global_socket = procs[i].soc <=> r > 5
             /\ procs[i].drop # "none" => r > 8
             /\ (r > 8 /\ <<"drop_privileges">> \in DOMAIN prefs
                  /\ prefs[<<"drop_privileges">>] = "yes") => procs[i].drop # "none"
             /\ procs[i].exec.file # "none" <=> r > 9
             /\ procs[i].status # "none" <=> r > 10
             /\ Markers(i, procs[i].soc) = (IF r = 12 THEN 1 ELSE 0))

\* A worker through nasl_thread after a failed run, privileges dropped, and
\* another that has not reached exec_nasl_script.
C16_Witness ==
  \E i, j \in Pids :
    /\ procs[i].pc = "done"
    /\ procs[i].status = "failed"
    /\ procs[i].drop = "GVM_DROP_PRIVILEGES_OK"
    /\ Markers(i, procs[i].soc) = 1
    /\ procs[j].pc = "drop_privileges"
    /\ procs[j].exec.file = "none"

\* C17: a load that misses the cache and whose parse gives an NVTI with an
\* OID adds that NVTI to the cache under the file name and takes what the
\* cache then holds for the name: with nothing there, or an NVTI without
\* OID, it returns -1 and merges nothing; otherwise it returns 0 and the
\* preferences merged are those of the NVTI from the cache.
C17_CommitThenRefetch ==
  [][(LoadStep /\ last'.execs = 1 /\ last'.parsed # NULL_NVTI
        /\ last'.parsed.oid # NULL)
       => /\ last'.added = last'.parsed
          /\ <<last'.name, last'.parsed>> \in committed'
          /\ last'.nvti = cache'[last'.name]
          /\ IF last'.nvti = NULL_NVTI \/ last'.nvti.oid = NULL
               THEN /\ last'.ret = -1
                    /\ last'.merged = NULL_NVTI
                    /\ prefs' = prefs
               ELSE /\ last'.ret = 0
                    /\ last'.merged = cache'[last'.name]
                    /\ prefs' = SpecMerged(prefs, cache'[last'.name])]_vars

\* The NVTI merged came from the cache and is not the one parsed.
C17_Witness ==
  /\ last.execs = 1
  /\ last.added # NULL_NVTI
  /\ last.added = last.parsed
  /\ last.nvti # NULL_NVTI
  /\ last.nvti # last.parsed
  /\ last.merged = last.nvti
  /\ last.ret = 0
  /\ SpecKeys(last.nvti) \subseteq DOMAIN prefs

\* C18: a load returns 0 or -1; one that returns -1 leaves the global
\* preferences as they were; one that returns -1 because exec_nasl_script
\* failed leaves the cache as it was too and has added nothing to it.
C18_FailedLoadKeepsPrefs ==
  [][LoadStep
       => /\ last'.ret \in {0, -1}
          /\ last'.ret = -1 => (prefs' = prefs /\ last'.merged = NULL_NVTI)
          /\ (last'.execs = 1 /\ last'.parsed = NULL_NVTI)
               => /\ last'.ret = -1
                  /\ cache' = cache
                  /\ committed' = committed]_vars

\* A load whose parse failed, after a load that left preferences and a
\* cache entry.
C18_Witness ==
  /\ nloads = 2
  /\ last.ret = -1
  /\ last.execs = 1
  /\ last.parsed = NULL_NVTI
  /\ committed # {}
  /\ \E n \in Names : cache[n] = Colliding
  /\ SpecKeys(Colliding) \subseteq DOMAIN prefs

SignatureCheckOff ==
  <<"nasl_no_signature_check">> \in DOMAIN prefs
    /\ prefs[<<"nasl_no_signature_check">>] = "yes"

\* C19: the mode a load passed to exec_nasl_script has NASL_EXEC_DESCR, has
\* NASL_ALWAYS_SIGNED exactly when nasl_no_signature_check is set, and the
\* OID passed is NULL; the mode a worker passed has no NASL_EXEC_DESCR, has
\* NASL_ALWAYS_SIGNED exactly when nasl_no_signature_check is set, and the
\* file and OID passed are those given to its launch.
C19_ModeFlags ==
  /\ last.execs > 0
       => /\ "NASL_EXEC_DESCR" \in last.mode
          /\ "NASL_ALWAYS_SIGNED" \in last.mode <=> SignatureCheckOff
          /\ last.execOid = NULL
  /\ \A i \in Pids :
       procs[i].exec.file # "none"
         => /\ "NASL_EXEC_DESCR" \notin procs[i].exec.mode
            /\ "NASL_ALWAYS_SIGNED" \in procs[i].exec.mode <=> SignatureCheckOff
            /\ \E k \in 1..Len(launches) :
                 /\ launches[k].module = i
                 /\ launches[k].name = procs[i].exec.file
                 /\ launches[k].oid = procs[i].exec.oid

\* A worker that called exec_nasl_script on f2 with the OID o2 of its
\* launch and NASL_ALWAYS_SIGNED alone.
C19_Witness ==
  \E i \in Pids :
    /\ SignatureCheckOff
    /\ procs[i].exec = [file |-> "f2", oid |-> "o2", mode |-> {"NASL_ALWAYS_SIGNED"}]

\* C20: a load changes no timestamps but those of its file; it changes none
\* when it hits the cache or its parse fails, where utime is not called;
\* when its parse succeeds, what it returns and what it adds to the cache
\* are given by the parsed NVTI alone, whatever utime did.
C20_TimestampsOnlyAfterParse ==
  [][LoadStep
       => /\ \A n \in Names \ {last'.name} : ftime'[n] = ftime[n]
          /\ (last'.execs = 0 \/ last'.parsed = NULL_NVTI)
               => (ftime' = ftime /\ last'.utime = "none")
          /\ last'.utime # "ok" => ftime' = ftime
          /\ (last'.execs = 1 /\ last'.parsed # NULL_NVTI)
               => IF last'.parsed.oid # NULL
                    THEN /\ last'.ret = 0
                         /\ last'.added = last'.parsed
                         /\ cache' = [cache EXCEPT ![last'.name] = last'.parsed]
                    ELSE /\ last'.ret = -1
                         /\ last'.added = NULL_NVTI
                         /\ cache' = cache]_vars

\* A load that returned -1 for want of an OID, with the timestamps of its
\* file rewritten.
C20_Witness ==
  /\ last.execs = 1
  /\ last.parsed # NULL_NVTI
  /\ last.parsed.oid = NULL
  /\ last.ret = -1
  /\ last.utime = "ok"
  /\ last.st_mtime > clock - 1
  /\ ftime[last.name].modtime = clock - 1

====
